---- MODULE Spec2Model ----
(***************************************************************************)
(* State-machine model of src/main.py: the paginated repository lister,    *)
(* the per-repository tree walker chains run under asyncio.gather, the     *)
(* commit resolver with its 403 retry loop, and main's hand-over of the    *)
(* merged list to the CSV writer.                                          *)
(*                                                                         *)
(* A chain (one asyncio task per repository) only changes state when one   *)
(* of its awaits completes, so every action below is the code that runs    *)
(* from one suspension point to the next.  The upstream (GitHub) is a      *)
(* fixed set of repositories, trees and commit histories; the HTTP status  *)
(* of every single request is chosen nondeterministically.                 *)
(***************************************************************************)
EXTENDS Integers, Sequences, FiniteSets, TLC

\* main.py:16-18
MAX_RECURSION_DEPTH == 5
MAX_RETRIES == 3
RETRY_DELAY == 5

\* Bounds of the modelled upstream.
MaxRepos == 3      \* an organization has 0..MaxRepos repositories
ChainDepth == 6    \* repository A nests directories down to this depth
PerPage == 2       \* repositories per page (per_page of main.py:28, scaled down)

None == "None"     \* Python's None
org == "acme"

VARIABLES
    pages,       \* upstream: the organization's repository pages (page k at index k)
    script,      \* upstream: the answers it gives to task i's requests, if fixed
    filetypes,   \* input: the extension filters
    gpc,         \* where get_github_files is: paging, gather, returned, raised
    page,        \* get_github_files: page
    repos,       \* get_github_files: repos
    pageReqs,    \* the page requests made so far, in order, with their answers
    chain,       \* one walker task per element of repos
    finished,    \* the tasks that have ended with records, in the order they ended
    files_list,  \* main: what get_github_files returned
    mpc,         \* where main is: crawl (main.py:132), saved, crashed
    csv          \* the data rows main wrote

vars == <<pages, script, filetypes, gpc, page, repos, pageReqs, chain, finished, files_list,
          mpc, csv>>

----------------------------------------------------------------------------
(* Upstream data *)

RepoNames == <<"A", "B", "C", "D", "E">>

RepoObj(k) == [name |-> RepoNames[k], default_branch |-> "main"]

\* The repositories lo..hi in pages of PerPage.
Chunks(lo, hi) ==
    [ j \in 1..((hi - lo + PerPage) \div PerPage) |->
        LET first == lo + (j - 1) * PerPage
            last == IF first + PerPage - 1 < hi THEN first + PerPage - 1 ELSE hi
        IN  [ m \in 1..(last - first + 1) |-> RepoObj(first + m - 1) ] ]

\* The first n repositories as the upstream pages them.
Layout(n) == Chunks(1, n)

\* The same with an empty page after the k-th repository: the upstream still
\* holds the others, but behind an empty page.
GapLayout(n, k) ==
    IF k >= n THEN Layout(n) ELSE Chunks(1, k) \o << <<>> >> \o Chunks(k + 1, n)

PageLayouts ==
    { Layout(n) : n \in 0..MaxRepos }
    \cup { GapLayout(n, k) : n \in 2..MaxRepos, k \in 1..(MaxRepos - 1) }

\* A repository whose listing is cyclical, alone or after repository A.
LoopRepo == [name |-> "L", default_branch |-> "main"]

CyclicLayouts == { << <<LoopRepo>> >>, << <<RepoObj(1), LoopRepo>> >> }

\* File names are character sequences, so that the suffix test is computed.
a_py  == <<"a", ".", "p", "y">>
c_py  == <<"c", ".", "p", "y">>
f_py  == <<"f", ".", "p", "y">>
s_py  == <<"s", ".", "p", "y">>
b_sql == <<"b", ".", "s", "q", "l">>
c_sql == <<"c", ".", "s", "q", "l">>
n_txt == <<"n", ".", "t", "x", "t">>
lib_py == <<"l", "i", "b", ".", "p", "y">>
d_nm  == <<"d">>
dot_py  == <<".", "p", "y">>
dot_sql == <<".", "s", "q", "l">>
dot_sas == <<".", "s", "a", "s">>

\* The filters of a run: .py alone (nothing of C matches), or .sas and .sql
\* (nothing of A matches).
FiletypeInputs == { <<dot_py>>, <<dot_sas, dot_sql>> }

\* One entry of a contents listing (the fields the walker reads).
Entry(repo, type, name, path) ==
    [type |-> type, name |-> name, path |-> path,
     html_url |-> [org |-> org, repo |-> repo, branch |-> "main", path |-> path]]

Child(repo, dir, type, name) == Entry(repo, type, name, Append(dir, name))

\* The directory listing the upstream holds for (repo, path); <<>> if none.
\* A: a chain of directories d/d/d/... down to depth ChainDepth, with f.py in
\*    every directory at depth >= MAX_RECURSION_DEPTH.
\* B: a.py, the directory lib.py (holding b.sql), n.txt, c.py.
\* C: a symlink s.py and c.sql (a file without commit history).
\* L: a.py and a directory entry d whose path is the root again (a cyclical
\*    listing); L is no repository of PageLayouts.
TreeOf(repo, path) ==
    IF repo = "A" THEN
        (IF Len(path) >= MAX_RECURSION_DEPTH
            THEN << Child(repo, path, "file", f_py) >> ELSE <<>>)
        \o (IF Len(path) < ChainDepth
            THEN << Child(repo, path, "dir", d_nm) >> ELSE <<>>)
    ELSE IF repo = "B" THEN
        IF path = <<>> THEN
            << Child(repo, path, "file", a_py), Child(repo, path, "dir", lib_py),
               Child(repo, path, "file", n_txt), Child(repo, path, "file", c_py) >>
        ELSE IF path = <<lib_py>> THEN
            << Child(repo, path, "file", b_sql) >>
        ELSE <<>>
    ELSE IF repo = "C" THEN
        IF path = <<>> THEN
            << Child(repo, path, "symlink", s_py), Child(repo, path, "file", c_sql) >>
        ELSE <<>>
    ELSE IF repo = "L" THEN
        << Child(repo, <<>>, "file", a_py), Entry(repo, "dir", d_nm, <<>>) >>
    ELSE <<>>

Commit(n, e, d) == [commit |-> [author |-> [name |-> n, email |-> e, date |-> d]]]

\* The commits touching (repo, path), most recent first.
HistoryOf(repo, path) ==
    IF repo \in {"C", "L"} THEN <<>>
    ELSE IF repo = "B" /\ path = <<a_py>> THEN
        << Commit("bob", "bob@x", "day2"), Commit("ann", "ann@x", "day1") >>
    ELSE << Commit("ann", "ann@x", "day1") >>

\* What the commits endpoint answers for per_page = n.
CommitsPage(repo, path, n) ==
    LET h == HistoryOf(repo, path)
    IN  SubSeq(h, 1, IF Len(h) < n THEN Len(h) ELSE n)

\* An upstream that answers every request of one repository's task the same
\* way in every run: the contents listings of the directories at depth denyAt
\* answer denyAs and every other listing 200; the commits requests of a file
\* answer 403 for the attempts below n403 and final from then on.  A status of
\* 0 stands for a request that raises instead of answering.
Answers(n403, final, denyAt, denyAs) ==
    [n403 |-> n403, final |-> final, denyAt |-> denyAt, denyAs |-> denyAs]

\* The answers after which a task ends normally.
ReturningAnswers ==
    { Answers(0, 200, 0, 200), Answers(2, 200, 1, 403), Answers(MAX_RETRIES, 200, 0, 200),
      Answers(1, 404, 0, 200) }

\* The answers after which a task may end with an exception.
RaisingAnswers == { Answers(0, 0, 0, 200), Answers(0, 200, 1, 0) }

\* The fixed upstreams: any returning answers per repository, or the same
\* raising answers for all.
Scripts ==
    [1..MaxRepos -> ReturningAnswers]
        \cup { [i \in 1..MaxRepos |-> a] : a \in RaisingAnswers }

\* <<>>: the upstream is free to answer each request in any way.
Unscripted == <<>>

ScriptedContents(a, depth) == IF depth = a.denyAt THEN a.denyAs ELSE 200

ScriptedCommit(a, attempt) == IF attempt < a.n403 THEN 403 ELSE a.final

\* What the repositories endpoint answers for page p.
ReposPage(p) == IF p \in 1..Len(pages) THEN pages[p] ELSE <<>>

----------------------------------------------------------------------------
(* get_github_files, main.py:20-43 *)

\* main.py:141-142
CsvRow(file) ==
    << file.org, file.repo, file.branch, file.file, file.file_url,
       file.last_committer, file.last_committer_email, file.last_commit_date >>

\* main.py:132-144: get_github_files returned list; main leaves the session,
\* and writes one row per element, whatever the list is.
MainSave(list) ==
    /\ files_list' = list
    /\ csv' = [k \in 1..Len(list) |-> CsvRow(list[k])]
    /\ mpc' = "saved"

\* main.py:132: an exception left get_github_files; main does not catch it
\* and asyncio.run (main.py:147) ends with it: no file is written.
MainCrash ==
    /\ mpc' = "crashed"
    /\ UNCHANGED <<files_list, csv>>

\* main.py:29
PageFailed(status) == status # 200

\* main.py:28, one request of the while loop and the status it got (0: the
\* request raised, there is no response).
PageReq(p, status) == [page |-> p, status |-> status]

\* A loop that keeps only the page it read last.
ExtendOverwrite(list, more) == more

\* main.py:38
Extend(list, more) == list \o more

\* main.py:39
NextPage(p) == p + 1

\* main.py:45, the local state of one get_repo_contents call.
Frame(path, depth) ==
    [path |-> path, depth |-> depth, contents |-> <<>>, idx |-> 0, results |-> <<>>]

\* The resolver call a chain is in, or was in last: the file, the requests
\* sent, the answers received, the waits, and the value returned.
NoCall == [path |-> <<>>, sent |-> 0, answers |-> <<>>, sleeps |-> 0, open |-> FALSE,
           ret |-> [name |-> None, email |-> None, date |-> None]]

\* main.py:41, the task of one repository: its call stack (the root call
\* first), where it is suspended, the resolver's attempt counter, and the
\* requests it has sent (listed, looked) and seen refused (denied), and
\* the requests it has sent that are not answered yet (inflight).
NewChain(repo) ==
    [repo |-> repo.name, branch |-> repo.default_branch, pc |-> "enter",
     stack |-> << Frame(<<>>, 0) >>, attempt |-> 0, call |-> NoCall,
     listed |-> {}, denied |-> {}, looked |-> {}, inflight |-> {}, result |-> <<>>]

Tasks(rs) == [i \in 1..Len(rs) |-> NewChain(rs[i])]

\* main.py:28-39, a page that answers 200 with a non-empty body.
ListPage ==
    /\ gpc = "paging"
    /\ ReposPage(page) # <<>>
    /\ pageReqs' = Append(pageReqs, PageReq(page, 200))
    /\ repos' = Extend(repos, ReposPage(page))
    /\ page' = NextPage(page)
    /\ UNCHANGED <<pages, script, filetypes, gpc, chain, finished, files_list, mpc, csv>>

\* main.py:28-36 and 41-42, the page that answers 200 with an empty body:
\* the loop breaks and gather() schedules one task per repository.
ListLastPage ==
    /\ gpc = "paging"
    /\ ReposPage(page) = <<>>
    /\ pageReqs' = Append(pageReqs, PageReq(page, 200))
    /\ chain' = Tasks(repos)
    /\ gpc' = "gather"
    /\ UNCHANGED <<pages, script, filetypes, page, repos, finished, files_list, mpc, csv>>

\* A lister that leaves the loop on a failed page and crawls what it has.
ListPageErrorBreaks ==
    /\ gpc = "paging"
    /\ \E status \in {401, 403} :
        /\ PageFailed(status)
        /\ pageReqs' = Append(pageReqs, PageReq(page, status))
        /\ chain' = Tasks(repos)
        /\ gpc' = "gather"
    /\ UNCHANGED <<pages, script, filetypes, page, repos, finished, files_list, mpc, csv>>

\* main.py:29-31, a page that answers with another status: return [].
ListPageError ==
    /\ gpc = "paging"
    /\ \E status \in {401, 403} :
        /\ PageFailed(status)
        /\ pageReqs' = Append(pageReqs, PageReq(page, status))
        /\ gpc' = "returned"
        /\ MainSave(<<>>)
    /\ UNCHANGED <<pages, script, filetypes, page, repos, chain, finished>>

\* main.py:28, session.get raises (no response at all): nothing catches it.
ListPageRaise ==
    /\ gpc = "paging"
    /\ pageReqs' = Append(pageReqs, PageReq(page, 0))
    /\ gpc' = "raised"
    /\ MainCrash
    /\ UNCHANGED <<pages, script, filetypes, page, repos, chain, finished>>

----------------------------------------------------------------------------
(* get_repo_contents, main.py:45-75, and the resolver, main.py:77-109 *)

\* A walker without the depth cut.
DepthNeverExceeded(depth) == depth < 0

\* A depth test that lets one more level through.
DepthExceededLate(depth) == depth > MAX_RECURSION_DEPTH + 1

\* main.py:46
DepthExceeded(depth) == depth > MAX_RECURSION_DEPTH

\* str.endswith
endswith(name, suffix) ==
    /\ Len(suffix) <= Len(name)
    /\ SubSeq(name, Len(name) - Len(suffix) + 1, Len(name)) = suffix

\* A filter that forgets the entry's type.
MatchesAnyType(content, fts) ==
    \E k \in 1..Len(fts) : endswith(content.name, fts[k])

\* main.py:60
Matches(content, fts) ==
    /\ content.type = "file"
    /\ \E k \in 1..Len(fts) : endswith(content.name, fts[k])

\* main.py:72
IsDir(content) == content.type = "dir"

\* main.py:54
ListingFailed(status) == status # 200

\* main.py:82
Retryable(status) == status = 403

\* A retry loop that runs one attempt too many.
HasAttemptOffByOne(attempt) == attempt <= MAX_RETRIES

\* main.py:78, for attempt in range(MAX_RETRIES)
HasAttempt(attempt) == attempt < MAX_RETRIES

\* main.py:87 and 90
NullCommit == [name |-> None, email |-> None, date |-> None]

\* A lookup that leaves the commit date out.
LastCommitOfNoDate(commits) ==
    IF commits # <<>>
    THEN LET author == commits[1].commit.author
         IN  [name |-> author.name, email |-> author.email, date |-> None]
    ELSE NullCommit

\* main.py:101-109
LastCommitOf(commits) ==
    IF commits # <<>>
    THEN LET author == commits[1].commit.author
         IN  [name |-> author.name, email |-> author.email, date |-> author.date]
    ELSE NullCommit

\* main.py:62-71
FileRecord(c, content, last_commit) ==
    [org |-> org, repo |-> c.repo, branch |-> c.branch, file |-> content.name,
     file_url |-> content.html_url,
     last_committer |-> last_commit.name,
     last_committer_email |-> last_commit.email,
     last_commit_date |-> last_commit.date]

Top(c) == c.stack[Len(c.stack)]

SetTop(c, f) == [c EXCEPT !.stack = [@ EXCEPT ![Len(c.stack)] = f]]

\* A caller that assigns the nested call's result instead of extending with it.
ReturnOverwrite(c, r) ==
    IF Len(c.stack) = 1
    THEN [c EXCEPT !.stack = <<>>, !.pc = "done", !.result = r]
    ELSE LET parent == c.stack[Len(c.stack) - 1]
             resumed == [parent EXCEPT !.results = r, !.idx = @ + 1]
         IN  [c EXCEPT !.stack = Append(SubSeq(@, 1, Len(c.stack) - 2), resumed),
                       !.pc = "loop"]

\* A get_repo_contents call returns r (main.py:47, 55, 75): the root call ends
\* the task, a nested call resumes its caller at main.py:73 (results.extend).
Return(c, r) ==
    IF Len(c.stack) = 1
    THEN [c EXCEPT !.stack = <<>>, !.pc = "done", !.result = r]
    ELSE LET parent == c.stack[Len(c.stack) - 1]
             resumed == [parent EXCEPT !.results = @ \o r, !.idx = @ + 1]
         IN  [c EXCEPT !.stack = Append(SubSeq(@, 1, Len(c.stack) - 2), resumed),
                       !.pc = "loop"]

\* A request on its way: the endpoint and the path it asks about.
Request(kind, path) == [kind |-> kind, path |-> path]

\* main.py:97, the commits request of one attempt is sent.
SendLookup(c, path, attempt) ==
    [c EXCEPT !.pc = "lookup", !.attempt = attempt,
              !.looked = @ \cup { path }, !.call.sent = @ + 1,
              !.inflight = @ \cup { Request("commits", path) }]

\* A walker that starts the resolver without awaiting it, and goes on with
\* the next entry.
StartCallDetached(c, path) ==
    LET top == c.stack[Len(c.stack)]
    IN  [c EXCEPT !.stack[Len(c.stack)] = [top EXCEPT !.idx = @ + 1],
                  !.pc = "loop",
                  !.looked = @ \cup { path },
                  !.inflight = @ \cup { Request("commits", path) }]

\* main.py:61 and 78-80, get_last_commit_with_retry starts with attempt 0.
StartCall(c, path) ==
    SendLookup([c EXCEPT !.call = [path |-> path, sent |-> 0, answers |-> <<>>,
                                   sleeps |-> 0, open |-> TRUE, ret |-> NullCommit]],
               path, 0)

\* A walker that puts each new record in front of the call's results.
FinishCallInFront(c, last_commit) ==
    LET top == c.stack[Len(c.stack)]
        rec == FileRecord(c, top.contents[top.idx], last_commit)
        nxt == [top EXCEPT !.results = <<rec>> \o @, !.idx = @ + 1]
    IN  [c EXCEPT !.stack[Len(c.stack)] = nxt,
                  !.pc = "loop",
                  !.call = [@ EXCEPT !.open = FALSE, !.ret = last_commit]]

\* main.py:61-71, the resolver returns last_commit and the record is appended.
FinishCall(c, last_commit) ==
    LET top == Top(c)
        rec == FileRecord(c, top.contents[top.idx], last_commit)
        nxt == [top EXCEPT !.results = Append(@, rec), !.idx = @ + 1]
    IN  [SetTop(c, nxt) EXCEPT !.pc = "loop",
                               !.call = [@ EXCEPT !.open = FALSE, !.ret = last_commit]]

\* One step of the walker between two awaits.
\* enter: main.py:46-53.  loop: one iteration of main.py:59-75.
Step(c) ==
    LET top == Top(c) IN
    IF c.pc = "enter" THEN
        IF DepthExceeded(top.depth) THEN Return(c, <<>>)
        ELSE [c EXCEPT !.pc = "listing",
                       !.listed = @ \cup { <<top.path, top.depth>> },
                       !.inflight = @ \cup { Request("contents", top.path) }]
    ELSE
        IF top.idx > Len(top.contents) THEN Return(c, top.results)
        ELSE LET content == top.contents[top.idx] IN
             IF Matches(content, filetypes) THEN StartCall(c, content.path)
             ELSE IF IsDir(content)
                  THEN [c EXCEPT !.stack = Append(@, Frame(content.path, top.depth + 1)),
                                 !.pc = "enter"]
             ELSE SetTop(c, [top EXCEPT !.idx = @ + 1])

\* The task runs until its next await (or its end): asyncio never switches
\* tasks in between.
\* (The chain is bound as a value, now, before the next step reads it.)
RECURSIVE Run(_)
Run(c) ==
    CHOOSE r \in { IF now.pc \in {"enter", "loop"} THEN Run(Step(now)) ELSE now :
                   now \in { c } } : TRUE

\* An event loop that a waiting task blocks (a wait that is not awaited).
RunningUnlessBlocked(i) ==
    /\ gpc = "gather" /\ i \in DOMAIN chain
    /\ \A j \in DOMAIN chain \ {i} : chain[j].pc # "sleep"

Running(i) == gpc = "gather" /\ i \in DOMAIN chain

Others == <<pages, script, filetypes, gpc, page, repos, pageReqs, files_list, mpc, csv>>

\* Task i has run up to its next await, or to its end, and is now c.  A task
\* that ends with records brings the next block to complete.
Resume(i, c) ==
    \E now \in { c } :
        /\ chain' = [chain EXCEPT ![i] = now]
        /\ finished' = IF now.pc = "done" /\ now.result # <<>>
                       THEN Append(finished, i) ELSE finished

\* The upstream may answer task i's pending contents request with status.
ContentsAnswer(i, status) ==
    IF script = Unscripted THEN TRUE
    ELSE status = ScriptedContents(script[i], Top(chain[i]).depth)

\* The upstream may answer task i's pending commits request with status.
CommitAnswer(i, status) ==
    IF script = Unscripted THEN TRUE
    ELSE status = ScriptedCommit(script[i], chain[i].attempt)

\* The event loop runs the task for the first time, up to its first request.
TaskStart(i) ==
    /\ Running(i) /\ chain[i].pc = "enter"
    /\ Resume(i, Run(chain[i]))
    /\ UNCHANGED Others

\* main.py:52, the pending contents request is over.
Listed(c) == [c EXCEPT !.inflight = @ \ { Request("contents", Top(c).path) }]

\* main.py:53-57, the contents listing answers 200.
ContentsOk(i) ==
    /\ Running(i) /\ chain[i].pc = "listing"
    /\ ContentsAnswer(i, 200)
    /\ LET c == Listed(chain[i])
           top == Top(c)
           got == [top EXCEPT !.contents = TreeOf(c.repo, top.path), !.idx = 1]
       IN  Resume(i, Run([SetTop(c, got) EXCEPT !.pc = "loop"]))
    /\ UNCHANGED Others

\* A walker that treats a refused listing as an exception.
ContentsErrorRaises(i) ==
    /\ Running(i) /\ chain[i].pc = "listing"
    /\ \E status \in {403, 404} :
        /\ ListingFailed(status)
        /\ ContentsAnswer(i, status)
        /\ LET c == [chain[i] EXCEPT !.denied = @ \cup { Top(chain[i]).path },
                                     !.inflight = {}]
           IN  Resume(i, [c EXCEPT !.pc = "raised", !.stack = <<>>])
    /\ UNCHANGED Others

\* main.py:54-55, the contents listing answers with another status.
ContentsError(i) ==
    /\ Running(i) /\ chain[i].pc = "listing"
    /\ \E status \in {403, 404} :
        /\ ListingFailed(status)
        /\ ContentsAnswer(i, status)
        /\ LET c == [Listed(chain[i]) EXCEPT !.denied = @ \cup { Top(chain[i]).path }]
           IN  Resume(i, Run(Return(c, Top(c).results)))
    /\ UNCHANGED Others

\* The exception leaves the task: no frame of the chain catches it.
Raise(c) == [c EXCEPT !.pc = "raised", !.stack = <<>>]

\* main.py:53, session.get raises, or main.py:57, the body is no JSON.
ContentsRaise(i) ==
    /\ Running(i) /\ chain[i].pc = "listing"
    /\ ContentsAnswer(i, 0)
    /\ Resume(i, Raise(Listed(chain[i])))
    /\ UNCHANGED Others

\* main.py:97-98, the pending commits request is over.
Answered(c, status) ==
    [c EXCEPT !.call.answers = Append(@, status),
              !.inflight = @ \ { Request("commits", c.call.path) }]

\* main.py:97-109, the lookup answers 200; per_page = 1 (main.py:95).
CommitOk(i) ==
    /\ Running(i) /\ chain[i].pc = "lookup"
    /\ CommitAnswer(i, 200)
    /\ LET c == Answered(chain[i], 200)
           commits == CommitsPage(c.repo, c.call.path, 1)
       IN  Resume(i, Run(FinishCall(c, LastCommitOf(commits))))
    /\ UNCHANGED Others

\* main.py:98 raises ClientResponseError; main.py:81-87 handles it.
CommitStatusError(i) ==
    /\ Running(i) /\ chain[i].pc = "lookup"
    /\ \E status \in {403, 404} :
        /\ CommitAnswer(i, status)
        /\ LET c == Answered(chain[i], status) IN
           Resume(i, IF Retryable(status)
                     THEN [c EXCEPT !.pc = "sleep", !.call.sleeps = @ + 1]
                     ELSE Run(FinishCall(c, NullCommit)))
    /\ UNCHANGED Others

\* main.py:97-99 raises something that is no ClientResponseError (a connection
\* error, a body that is no JSON): main.py:81 does not catch it.
CommitRaise(i) ==
    /\ Running(i) /\ chain[i].pc = "lookup"
    /\ CommitAnswer(i, 0)
    /\ Resume(i, Raise(Answered(chain[i], 0)))
    /\ UNCHANGED Others

\* main.py:84 returns after RETRY_DELAY; the for loop of main.py:78 goes on
\* with the next attempt or ends (main.py:89-90).
Wake(i) ==
    /\ Running(i) /\ chain[i].pc = "sleep"
    /\ LET c == chain[i] IN
       Resume(i, IF HasAttempt(c.attempt + 1)
                 THEN SendLookup(c, c.call.path, c.attempt + 1)
                 ELSE Run(FinishCall(c, NullCommit)))
    /\ UNCHANGED Others

----------------------------------------------------------------------------
(* the join, main.py:42-43 *)

\* main.py:43
RECURSIVE Flatten(_)
Flatten(results) ==
    IF results = <<>> THEN <<>> ELSE Head(results) \o Flatten(Tail(results))

\* A join that answers as soon as one task has ended.
GatherReturnFirst ==
    /\ gpc = "gather"
    /\ \E i \in DOMAIN chain : chain[i].pc = "done"
    /\ gpc' = "returned"
    /\ MainSave(Flatten([i \in DOMAIN chain |-> chain[i].result]))
    /\ UNCHANGED <<pages, script, filetypes, page, repos, pageReqs, chain, finished>>

\* A join that collects the tasks' results as each task ends.
GatherReturnAsCompleted ==
    /\ gpc = "gather"
    /\ \A i \in DOMAIN chain : chain[i].pc = "done"
    /\ gpc' = "returned"
    /\ MainSave(Flatten([k \in DOMAIN finished |-> chain[finished[k]].result]))
    /\ UNCHANGED <<pages, script, filetypes, page, repos, pageReqs, chain, finished>>

\* main.py:42-43: every task has ended normally; gather answers with the
\* tasks' results in the order of the tasks.
GatherReturn ==
    /\ gpc = "gather"
    /\ \A i \in DOMAIN chain : chain[i].pc = "done"
    /\ gpc' = "returned"
    /\ MainSave(Flatten([i \in DOMAIN chain |-> chain[i].result]))
    /\ UNCHANGED <<pages, script, filetypes, page, repos, pageReqs, chain, finished>>

\* main.py:42: a task ended with an exception; gather re-raises it in
\* get_github_files, nothing up to asyncio.run catches it, and asyncio.run
\* cancels the tasks that are still pending.
Cancel(c) ==
    IF c.pc \in {"done", "raised"} THEN c
    ELSE [c EXCEPT !.pc = "cancelled", !.stack = <<>>, !.inflight = {}]

GatherRaise ==
    /\ gpc = "gather"
    /\ \E i \in DOMAIN chain : chain[i].pc = "raised"
    /\ gpc' = "raised"
    /\ chain' = [i \in DOMAIN chain |-> Cancel(chain[i])]
    /\ MainCrash
    /\ UNCHANGED <<pages, script, filetypes, page, repos, pageReqs, finished>>

Init ==
    /\ pages \in PageLayouts
    /\ script = Unscripted
    /\ filetypes \in FiletypeInputs
    /\ gpc = "paging"
    /\ page = 1
    /\ repos = <<>>
    /\ pageReqs = <<>>
    /\ chain = <<>>
    /\ finished = <<>>
    /\ files_list = <<>>
    /\ mpc = "crawl"
    /\ csv = <<>>

Next ==
    \/ ListPage
    \/ ListLastPage
    \/ ListPageError
    \/ ListPageRaise
    \/ \E i \in DOMAIN chain : TaskStart(i)
    \/ \E i \in DOMAIN chain : ContentsOk(i)
    \/ \E i \in DOMAIN chain : ContentsError(i)
    \/ \E i \in DOMAIN chain : ContentsRaise(i)
    \/ \E i \in DOMAIN chain : CommitOk(i)
    \/ \E i \in DOMAIN chain : CommitStatusError(i)
    \/ \E i \in DOMAIN chain : CommitRaise(i)
    \/ \E i \in DOMAIN chain : Wake(i)
    \/ GatherReturn
    \/ GatherRaise

Spec == Init /\ [][Next]_vars

\* Runs against one fixed upstream: the organization has MaxRepos repositories
\* and every request of a task is answered as the script says, in every run.
InitScripted ==
    /\ pages = Layout(MaxRepos)
    /\ script \in Scripts
    /\ filetypes \in FiletypeInputs
    /\ gpc = "paging"
    /\ page = 1
    /\ repos = <<>>
    /\ pageReqs = <<>>
    /\ chain = <<>>
    /\ finished = <<>>
    /\ files_list = <<>>
    /\ mpc = "crawl"
    /\ csv = <<>>

SpecScripted == InitScripted /\ [][Next]_vars

\* Runs in which whatever can happen next does happen: the event loop runs a
\* task that is ready, every request is answered or raises, every wait ends.
\* The upstream is one of Init with fewer than MaxRepos repositories, or one
\* that holds the cyclical repository.
FairLayouts == { l \in PageLayouts : Len(Flatten(l)) < MaxRepos } \cup CyclicLayouts

InitFair ==
    /\ pages \in FairLayouts
    /\ script = Unscripted
    /\ filetypes \in FiletypeInputs
    /\ gpc = "paging"
    /\ page = 1
    /\ repos = <<>>
    /\ pageReqs = <<>>
    /\ chain = <<>>
    /\ finished = <<>>
    /\ files_list = <<>>
    /\ mpc = "crawl"
    /\ csv = <<>>

SpecFair == InitFair /\ [][Next]_vars /\ WF_vars(Next)

----------------------------------------------------------------------------
(* Vocabulary of the properties *)

AllNull == [name |-> None, email |-> None, date |-> None]

Rep(n, x) == [k \in 1..n |-> x]

Last(seq) == seq[Len(seq)]

RECURSIVE Concat(_)
Concat(lists) == IF lists = <<>> THEN <<>> ELSE Head(lists) \o Concat(Tail(lists))

\* The records a chain holds: those of its suspended calls, or its result.
RecordsOf(c) == Concat([k \in 1..Len(c.stack) |-> c.stack[k].results]) \o c.result

\* The positions of list that hold a record of (repo, path).
RecordsFor(list, repo, path) ==
    { k \in 1..Len(list) : list[k].repo = repo /\ list[k].file_url.path = path }

Committer(rec) ==
    [name |-> rec.last_committer, email |-> rec.last_committer_email,
     date |-> rec.last_commit_date]

\* The author of the most recent commit the upstream holds for (repo, path).
MostRecent(repo, path) ==
    LET a == HistoryOf(repo, path)[1].commit.author
    IN  [name |-> a.name, email |-> a.email, date |-> a.date]

\* The chain is alive or has ended normally: its records exist.
Alive(c) == c.pc \notin {"raised", "cancelled"}

\* An exception left the chain's resolver call and, with it, the chain.
Escalated(c) == c.pc = "raised" /\ c.call.open

\* The chain's resolver call has returned.
Returned(c) == Alive(c) /\ ~c.call.open /\ c.call.sent > 0

----------------------------------------------------------------------------
(* C1 - C10 *)

\* C1: a resolver call answered 403 exactly K < MAX_RETRIES times and then 200
\* with a commit returns that commit's author name, email and date, all
\* non-null, and the file's one FileRecord carries them; a call answered 403
\* MAX_RETRIES times returns the all-null record, the FileRecord's committer
\* fields are null, and the call has sent MAX_RETRIES requests and never sends
\* more.
C1_RetryContract ==
    \A i \in DOMAIN chain :
        LET c == chain[i]
            call == c.call
            recs == RecordsOf(c)
            mine == RecordsFor(recs, c.repo, call.path)
        IN  /\ call.sent <= MAX_RETRIES
            /\ Returned(c) =>
                /\ Cardinality(mine) = 1
                /\ \A k \in mine : Committer(recs[k]) = call.ret
                /\ \A K \in 0..(MAX_RETRIES - 1) :
                    ( /\ call.answers = Rep(K, 403) \o <<200>>
                      /\ HistoryOf(c.repo, call.path) # <<>> ) =>
                        /\ call.ret = MostRecent(c.repo, call.path)
                        /\ None \notin {call.ret.name, call.ret.email, call.ret.date}
                        /\ call.sent = K + 1
                /\ call.answers = Rep(MAX_RETRIES, 403) =>
                        /\ call.ret = AllNull
                        /\ call.sent = MAX_RETRIES

\* C1 witness: one chain's call succeeded after two 403 answers, another
\* chain's call gave up after MAX_RETRIES 403 answers.
C1_Witness ==
    \E i, j \in DOMAIN chain :
        /\ Returned(chain[i]) /\ Returned(chain[j])
        /\ chain[i].call.answers = <<403, 403, 200>>
        /\ chain[i].call.ret.name # None
        /\ chain[j].call.answers = Rep(MAX_RETRIES, 403)

\* C2: a lookup failure other than a 403 answer (another status, or no status
\* at all) ends the resolver call at once with the all-null record, the file
\* gets its FileRecord with null committer fields, and the failure does not
\* end the chain.
C2_OtherFailureIsLocal ==
    \A i \in DOMAIN chain :
        LET c == chain[i]
            call == c.call
            recs == RecordsOf(c)
        IN  (call.answers # <<>> /\ Last(call.answers) \notin {200, 403}) =>
                /\ ~Escalated(c)
                /\ ~call.open
                /\ call.ret = AllNull
                /\ call.sent = Len(call.answers)
                /\ Alive(c) =>
                    \E k \in RecordsFor(recs, c.repo, call.path) :
                        Committer(recs[k]) = AllNull

\* C2, the part the code keeps: a failure that carries an HTTP status other
\* than 403 is terminal for the one file only.
C2_StatusFailureIsLocal ==
    \A i \in DOMAIN chain :
        LET c == chain[i]
            call == c.call
            recs == RecordsOf(c)
        IN  (call.answers # <<>> /\ Last(call.answers) \notin {0, 200, 403}) =>
                /\ ~Escalated(c)
                /\ ~call.open
                /\ call.ret = AllNull
                /\ call.sent = Len(call.answers)
                /\ Alive(c) =>
                    \E k \in RecordsFor(recs, c.repo, call.path) :
                        Committer(recs[k]) = AllNull

\* The upstream's view of the trees, computed without the walker.
IsSuffix(name, suffix) ==
    \E k \in 0..Len(name) : SubSeq(name, k + 1, Len(name)) = suffix

Wanted(e) ==
    /\ e.type = "file"
    /\ \E k \in 1..Len(filetypes) : IsSuffix(e.name, filetypes[k])

Entries(repo, dir) == { TreeOf(repo, dir)[k] : k \in 1..Len(TreeOf(repo, dir)) }

SubDirs(repo, dirs) ==
    { e.path : e \in { x \in UNION { Entries(repo, p) : p \in dirs } : x.type = "dir" } }

\* The directories of repo at depth d.
RECURSIVE DirsAt(_, _)
DirsAt(repo, d) == IF d = 0 THEN { <<>> } ELSE SubDirs(repo, DirsAt(repo, d - 1))

\* The matching files of repo in directories at depth 0..MAX_RECURSION_DEPTH.
WantedFiles(repo) ==
    { e.path : e \in { x \in UNION { Entries(repo, p) :
                             p \in UNION { DirsAt(repo, d) : d \in 0..MAX_RECURSION_DEPTH } } :
                       Wanted(x) } }

\* The directories at depth d that chain c can reach through directories
\* whose listing was not refused.
RECURSIVE OpenDirsAt(_, _)
OpenDirsAt(c, d) ==
    IF d = 0 THEN { <<>> } ELSE SubDirs(c.repo, OpenDirsAt(c, d - 1) \ c.denied)

\* The matching files in directories at depth 0..MAX_RECURSION_DEPTH that are
\* reached through, and listed by, requests that were not refused.
ServedFiles(c) ==
    { e.path : e \in { x \in UNION { Entries(c.repo, p) :
                             p \in UNION { OpenDirsAt(c, d) : d \in 0..MAX_RECURSION_DEPTH }
                                   \ c.denied } :
                       Wanted(x) } }

\* The repository listing ended with an empty page, every page answering 200.
ListingOk == gpc # "paging" /\ pageReqs # <<>> /\ Last(pageReqs).status = 200

AllDone == \A i \in DOMAIN chain : chain[i].pc = "done"

\* No contents listing of the chain failed: none refused, none raised.
NoListingFailure(c) == c.denied = {} /\ (c.pc = "raised" => c.call.open)

\* C3: if the root listing of one repository is refused and no listing of any
\* other repository fails, the crawl does not end in a top-level failure, it
\* returns only after every chain is done, and the result holds exactly one
\* record per matching file of the other repositories and none of the refused
\* one.
C3_FailureIsolation ==
    \A b \in DOMAIN chain :
        ( /\ <<>> \in chain[b].denied
          /\ \A i \in DOMAIN chain \ {b} : NoListingFailure(chain[i]) ) =>
            /\ gpc # "raised" /\ mpc # "crashed"
            /\ gpc = "returned" =>
                /\ AllDone
                /\ mpc = "saved"
                /\ RecordsFor(files_list, chain[b].repo, <<>>) = {}
                /\ \A k \in 1..Len(files_list) : files_list[k].repo # chain[b].repo
                /\ \A i \in DOMAIN chain \ {b} :
                    \A p \in WantedFiles(chain[i].repo) :
                        Cardinality(RecordsFor(files_list, chain[i].repo, p)) = 1

\* C3, the part the code keeps: the same, as long as no exception leaves a
\* commit lookup.
C3_IsolationWithoutLookupException ==
    \A b \in DOMAIN chain :
        ( /\ <<>> \in chain[b].denied
          /\ \A i \in DOMAIN chain : ~Escalated(chain[i])
          /\ \A i \in DOMAIN chain \ {b} : NoListingFailure(chain[i]) ) =>
            /\ gpc # "raised" /\ mpc # "crashed"
            /\ gpc = "returned" =>
                /\ AllDone
                /\ mpc = "saved"
                /\ \A k \in 1..Len(files_list) : files_list[k].repo # chain[b].repo
                /\ \A i \in DOMAIN chain \ {b} :
                    \A p \in WantedFiles(chain[i].repo) :
                        Cardinality(RecordsFor(files_list, chain[i].repo, p)) = 1

\* The result holds exactly the keys (repository, path) of files, files[i]
\* being the paths due from chain i, and each of them once.
ExactlyOnePer(files) ==
    /\ \A i \in DOMAIN chain :
        \A p \in files[i] :
            Cardinality(RecordsFor(files_list, chain[i].repo, p)) = 1
    /\ \A k \in 1..Len(files_list) :
        \E i \in DOMAIN chain :
            /\ files_list[k].repo = chain[i].repo
            /\ files_list[k].file_url.path \in files[i]

\* C4 as stated: when the crawl returns after a successful repository
\* listing, the result holds exactly one record per matching file in a
\* directory at depth 0..MAX_RECURSION_DEPTH of a listed repository.
C4_ExactlyOnePerReachableFile ==
    (gpc = "returned" /\ ListingOk) =>
        ExactlyOnePer([i \in DOMAIN chain |-> WantedFiles(chain[i].repo)])

\* C4 amended: when the crawl returns after a successful repository listing,
\* the result holds exactly one record per matching file in a directory at
\* depth 0..MAX_RECURSION_DEPTH that is reached through, and listed by,
\* contents requests answered 200; no such pair is missing or duplicated, and
\* there is no other record.
C4_ExactlyOnePerServedFile ==
    (gpc = "returned" /\ ListingOk) =>
        ExactlyOnePer([i \in DOMAIN chain |-> ServedFiles(chain[i])])

\* C4 witness: a crawl of three repositories has returned records, and a
\* refused listing has cost one repository a matching file.
C4_Witness ==
    /\ gpc = "returned" /\ ListingOk
    /\ Len(chain) = 3
    /\ files_list # <<>>
    /\ \E i \in DOMAIN chain : ServedFiles(chain[i]) # WantedFiles(chain[i].repo)

\* C5: no contents request is sent for a directory deeper than
\* MAX_RECURSION_DEPTH, no call deeper than that is ever awaiting a listing,
\* and no record belongs to a file of such a directory; and once a chain is
\* done, every directory at depth <= MAX_RECURSION_DEPTH listed in a served
\* directory has been requested and every matching file of a served directory
\* has its record.
C5_DepthBoundary ==
    \A i \in DOMAIN chain :
        LET c == chain[i]
            recs == RecordsOf(c)
        IN  /\ \A l \in c.listed :
                l[2] <= MAX_RECURSION_DEPTH /\ Len(l[1]) <= MAX_RECURSION_DEPTH
            /\ c.pc = "listing" => Top(c).depth <= MAX_RECURSION_DEPTH
            /\ \A k \in 1..Len(recs) :
                Len(recs[k].file_url.path) - 1 <= MAX_RECURSION_DEPTH
            /\ c.pc = "done" =>
                \A l \in c.listed :
                    l[1] \notin c.denied =>
                        \A e \in Entries(c.repo, l[1]) :
                            /\ (e.type = "dir" /\ l[2] + 1 <= MAX_RECURSION_DEPTH)
                                => <<e.path, l[2] + 1>> \in c.listed
                            /\ Wanted(e) => RecordsFor(recs, c.repo, e.path) # {}

\* C5 witness: a chain is done, it has listed a directory at depth
\* MAX_RECURSION_DEPTH and holds the record of a file in it, while the
\* upstream holds a deeper directory with a matching file.
C5_Witness ==
    \E i \in DOMAIN chain :
        LET c == chain[i] IN
        /\ c.pc = "done"
        /\ \E l \in c.listed :
            /\ l[2] = MAX_RECURSION_DEPTH
            /\ \E e \in Entries(c.repo, l[1]) :
                Wanted(e) /\ RecordsFor(RecordsOf(c), c.repo, e.path) # {}
            /\ \E e \in Entries(c.repo, l[1]) :
                e.type = "dir" /\ \E x \in Entries(c.repo, e.path) : Wanted(x)

\* The upstream entries of repo with the given path.
EntriesAt(repo, path) ==
    IF path = <<>> THEN {}
    ELSE { e \in Entries(repo, SubSeq(path, 1, Len(path) - 1)) : e.path = path }

\* C6: every record, in any chain and in the result, belongs to an entry of
\* type file whose name ends with one of the filters, and every commit lookup
\* is for such an entry; an entry that matches no filter, or is no file, has
\* no record and no lookup, whatever its siblings are.
C6_OnlyMatchingFiles ==
    /\ \A k \in 1..Len(files_list) :
        \E e \in EntriesAt(files_list[k].repo, files_list[k].file_url.path) :
            Wanted(e) /\ files_list[k].file = e.name
    /\ \A i \in DOMAIN chain :
        LET c == chain[i]
            recs == RecordsOf(c)
        IN  /\ \A k \in 1..Len(recs) :
                \E e \in EntriesAt(recs[k].repo, recs[k].file_url.path) :
                    Wanted(e) /\ recs[k].file = e.name
            /\ \A p \in c.looked : \E e \in EntriesAt(c.repo, p) : Wanted(e)
            /\ \A l \in c.listed :
                \A e \in Entries(c.repo, l[1]) :
                    ~Wanted(e) =>
                        /\ e.path \notin c.looked
                        /\ RecordsFor(recs, c.repo, e.path) = {}

\* C6 witness: a returned result holds the record of a matching file whose
\* directory also lists a file that matches no filter and a directory whose
\* name ends with a filter.
C6_Witness ==
    /\ gpc = "returned"
    /\ \E k \in 1..Len(files_list) :
        LET r == files_list[k]
            dir == SubSeq(r.file_url.path, 1, Len(r.file_url.path) - 1)
        IN  /\ \E e \in Entries(r.repo, dir) : e.type = "file" /\ ~Wanted(e)
            /\ \E e \in Entries(r.repo, dir) :
                /\ e.type = "dir"
                /\ \E f \in 1..Len(filetypes) : IsSuffix(e.name, filetypes[f])

AllPagesOk == \A k \in 1..Len(pageReqs) : pageReqs[k].status = 200

\* The number of the first page the upstream answers empty.
FirstEmpty ==
    CHOOSE k \in 1..(Len(pages) + 1) :
        /\ ReposPage(k) = <<>>
        /\ \A j \in 1..(k - 1) : ReposPage(j) # <<>>

\* C7: while every page request answers 200, the pages requested are 1, 2,
\* 3, ... in order, none after the first empty page, and repos is the
\* concatenation in page order of the non-empty pages read; when the listing
\* has ended, the first empty page was the last request and there is exactly
\* one walker per listed repository, in listing order; an organization whose
\* first page is empty ends with an empty result, saved without error.
C7_Pagination ==
    AllPagesOk =>
        /\ \A k \in 1..Len(pageReqs) : pageReqs[k].page = k
        /\ Len(pageReqs) <= FirstEmpty
        /\ gpc = "paging" =>
            /\ repos = Concat(SubSeq(pages, 1, Len(pageReqs)))
            /\ chain = <<>>
        /\ gpc # "paging" =>
            /\ Len(pageReqs) = FirstEmpty
            /\ repos = Concat(SubSeq(pages, 1, FirstEmpty - 1))
            /\ Len(chain) = Len(repos)
            /\ \A i \in DOMAIN chain :
                /\ chain[i].repo = repos[i].name
                /\ chain[i].branch = repos[i].default_branch
        /\ (gpc # "paging" /\ ReposPage(1) = <<>>) =>
            /\ gpc # "raised" /\ mpc # "crashed"
            /\ gpc = "returned" => (files_list = <<>> /\ csv = <<>> /\ mpc = "saved")

\* C7 witness: three repositories were read from two pages, the third page
\* was empty, and three walkers were started.
C7_Witness ==
    /\ AllPagesOk /\ gpc = "gather"
    /\ Len(pageReqs) = 3
    /\ Len(pages[1]) < 3
    /\ Len(repos) = 3 /\ Len(chain) = 3

\* C8: a page answered with a status other than 200 is the last request of
\* the listing (no further page, no retry), no walker is started, and
\* get_github_files returns the empty list whatever repos holds.
C8_ListingFailureAborts ==
    \A k \in 1..Len(pageReqs) :
        pageReqs[k].status \notin {0, 200} =>
            /\ k = Len(pageReqs)
            /\ \A j \in 1..(k - 1) : pageReqs[j].page # pageReqs[k].page
            /\ gpc = "returned"
            /\ chain = <<>>
            /\ files_list = <<>>

\* C8 witness: the second page failed after the first page had brought
\* repositories.
C8_Witness ==
    /\ Len(pageReqs) = 2
    /\ pageReqs[2].status \notin {0, 200}
    /\ repos # <<>>
    /\ gpc = "returned"

\* C9: after a failed page of the repository listing the run is a failed run:
\* main does not save a result set.
C9_ListingFailureFailsRun ==
    (\E k \in 1..Len(pageReqs) : pageReqs[k].status \notin {0, 200}) => mpc # "saved"

\* C10: the caller holds a result (get_github_files has returned, main has
\* saved, or any record has reached files_list or the file) only when every
\* walker chain is done.
C10_JoinBeforeReturn ==
    (gpc = "returned" \/ mpc = "saved" \/ files_list # <<>> \/ csv # <<>>) => AllDone

\* C10 witness: a crawl of three repositories has returned records.
C10_Witness ==
    /\ gpc = "returned"
    /\ Len(chain) = 3
    /\ files_list # <<>>
    /\ AllDone

----------------------------------------------------------------------------
(* C11: the order of the per-repository blocks *)

\* The results of the tasks named by order, one block after the other.
Blocks(order) == Concat([k \in DOMAIN order |-> chain[order[k]].result])

\* The position of a record's repository in repos.
RepoIndex(rec) == CHOOSE i \in DOMAIN repos : repos[i].name = rec.repo

\* C11 as stated: the merged output holds the per-repository blocks in the
\* order in which the walker tasks completed.
C11_BlocksInCompletionOrder ==
    gpc = "returned" => files_list = Blocks(finished)

\* C11 amended: the merged output holds the per-repository blocks in the
\* order in which the tasks were submitted, which is the order of the
\* repository listing, whatever the order in which the tasks completed.
C11_BlocksInSubmissionOrder ==
    gpc = "returned" =>
        /\ files_list = Blocks([i \in DOMAIN chain |-> i])
        /\ \A k, l \in DOMAIN files_list :
               k < l => RepoIndex(files_list[k]) <= RepoIndex(files_list[l])

\* C11 witness: the crawl returned records of two repositories, and the
\* task of the repository listed later completed first.
C11_Witness ==
    /\ gpc = "returned"
    /\ \E k, l \in DOMAIN finished :
           /\ k < l /\ finished[k] > finished[l]
           /\ chain[finished[k]].result # <<>>
           /\ chain[finished[l]].result # <<>>

----------------------------------------------------------------------------
(* C12: two runs against the same upstream *)

\* The repositories the scripted upstream lists, in order.
ScriptedRepos == Concat(pages)

\* The directories whose listing the scripted upstream refuses to task i.
ScriptedDenied(i) ==
    LET a == script[i] IN
    IF a.denyAs = 200 THEN {} ELSE DirsAt(ScriptedRepos[i].name, a.denyAt)

\* What one record of a run says: its key and its committer fields.
Said(rec) == [repo |-> rec.repo, path |-> rec.file_url.path, committer |-> Committer(rec)]

\* The collection that the scripted upstream fixes, computed from the upstream
\* alone (its pages, trees, histories and answers) and from the filter, the
\* order of the records left aside.
ScriptedCollection ==
    UNION { LET repo == ScriptedRepos[i].name
                a == script[i]
                served == ServedFiles([repo |-> repo, denied |-> ScriptedDenied(i)])
            IN  { [repo |-> repo, path |-> p,
                   committer |-> IF /\ a.n403 < MAX_RETRIES /\ a.final = 200
                                    /\ HistoryOf(repo, p) # <<>>
                                 THEN MostRecent(repo, p) ELSE AllNull] : p \in served }
            : i \in DOMAIN ScriptedRepos }

\* C12: every run that returns against one upstream - the same answer to the
\* same request in every run - returns the collection that upstream fixes,
\* under any interleaving of the chains: the same (repository, path) keys,
\* each once, with the same committer fields.  Any two such runs therefore
\* return collections that are equal up to the order of the records.
C12_SameUpstreamSameCollection ==
    (gpc = "returned" /\ ListingOk) =>
        /\ \A k \in DOMAIN files_list : Said(files_list[k]) \in ScriptedCollection
        /\ \A x \in ScriptedCollection :
               Cardinality({ k \in DOMAIN files_list : Said(files_list[k]) = x }) = 1

\* C12 witness: a run against a fixed upstream returned records of two
\* repositories, one resolved after retries and one all-null, and the task
\* of the repository listed later ended first.
C12_Witness ==
    /\ script # Unscripted
    /\ gpc = "returned" /\ ListingOk
    /\ \E k, l \in DOMAIN files_list :
           /\ files_list[k].repo # files_list[l].repo
           /\ Committer(files_list[k]) = AllNull
           /\ Committer(files_list[l]) # AllNull
    /\ \E i \in DOMAIN chain : chain[i].call.sleeps > 0
    /\ \E k, l \in DOMAIN finished : k < l /\ finished[k] > finished[l]

----------------------------------------------------------------------------
(* C13: a refused contents listing *)

IsPrefix(a, b) == Len(a) <= Len(b) /\ SubSeq(b, 1, Len(a)) = a

Parent(path) == SubSeq(path, 1, Len(path) - 1)

\* This step answers the pending listing of a subdirectory of task i with a
\* status other than 200.
SubdirRefused(i) ==
    /\ chain[i].pc = "listing" /\ Len(chain[i].stack) > 1
    /\ chain'[i].denied # chain[i].denied

\* In every state: a refused listing is not requested again, a chain that is
\* done holds one record for every matching file that the parent of a refused
\* subdirectory lists (before or after that subdirectory), and a returned
\* crawl holds every record of every chain.
C13_State ==
    /\ \A i \in DOMAIN chain :
         LET c == chain[i] IN
         /\ c.pc = "listing" => Top(c).path \notin c.denied
         /\ c.pc = "done" =>
               \A p \in c.denied : p # <<>> /\ Parent(p) \notin c.denied =>
                   \A e \in Entries(c.repo, Parent(p)) :
                       Wanted(e) => Cardinality(RecordsFor(c.result, c.repo, e.path)) = 1
    /\ gpc = "returned" =>
         \A i \in DOMAIN chain : \A k \in DOMAIN chain[i].result :
             \E l \in DOMAIN files_list : files_list[l] = chain[i].result[k]

\* In every step: the step that refuses a subdirectory's listing leaves the
\* chain alive, in the parent's call or beyond, with exactly the records it
\* held; and no step takes a record from a chain that stays alive.
C13_Step ==
    \A i \in DOMAIN chain :
        /\ SubdirRefused(i) =>
              /\ chain'[i].pc # "raised"
              /\ Len(chain'[i].stack) < Len(chain[i].stack)
              /\ RecordsOf(chain'[i]) = RecordsOf(chain[i])
        /\ (i \in DOMAIN chain' /\ Alive(chain'[i])) =>
              IsPrefix(RecordsOf(chain[i]), RecordsOf(chain'[i]))

\* C13: a contents listing of a subdirectory that answers with any status
\* other than 200 (403 included, and never retried) makes only that subtree
\* contribute nothing: the records collected before it are kept, the entries
\* after it in the parent are still processed, and no record of any
\* repository is missing from the final output.
C13_RefusedSubtreeOnly == []C13_State /\ [][C13_Step]_vars

\* C13 witness: the crawl returned; a chain whose subdirectory listing was
\* refused holds a record of a file listed before that subdirectory and one
\* of a file listed after it.
C13_Witness ==
    /\ gpc = "returned"
    /\ \E i \in DOMAIN chain :
         LET c == chain[i]
             at(p) == CHOOSE k \in DOMAIN TreeOf(c.repo, Parent(p)) :
                          TreeOf(c.repo, Parent(p))[k].path = p
         IN  \E p \in c.denied :
                 /\ p # <<>>
                 /\ \E k, l \in DOMAIN c.result :
                        /\ Parent(c.result[k].file_url.path) = Parent(p)
                        /\ Parent(c.result[l].file_url.path) = Parent(p)
                        /\ at(c.result[k].file_url.path) < at(p)
                        /\ at(p) < at(c.result[l].file_url.path)

----------------------------------------------------------------------------
(* C14: requests in flight *)

\* The requests in flight across the crawl, each with its task.
InFlight == UNION { { <<i, r>> : r \in chain[i].inflight } : i \in DOMAIN chain }

\* C14: a chain has at most one request in flight, and it is the request of
\* its innermost call; every suspended call of a chain waits at a directory
\* entry for the call just above it, which walks that directory one level
\* deeper, so a subdirectory's subtree is finished before the parent's next
\* entry; the requests in flight across the crawl never exceed the number of
\* repositories.
C14_SequentialChains ==
    /\ \A i \in DOMAIN chain :
         LET c == chain[i] IN
         /\ Cardinality(c.inflight) <= 1
         /\ \A r \in c.inflight :
               /\ c.stack # <<>>
               /\ r.kind = "contents" => c.pc = "listing" /\ r.path = Top(c).path
               /\ r.kind = "commits" =>
                     /\ c.pc = "lookup"
                     /\ r.path = Top(c).contents[Top(c).idx].path
         /\ c.pc \in {"listing", "lookup"} => c.inflight # {}
         /\ \A k \in 1..(Len(c.stack) - 1) :
               LET f == c.stack[k] IN
               /\ f.idx \in DOMAIN f.contents
               /\ f.contents[f.idx].type = "dir"
               /\ f.contents[f.idx].path = c.stack[k + 1].path
               /\ c.stack[k + 1].depth = f.depth + 1
    /\ Cardinality(InFlight) <= Len(repos)

\* C14 witness: three chains have a request in flight at once, one of them
\* from a nested call while another is the commits request of a root file.
C14_Witness ==
    /\ Len(chain) = 3
    /\ Cardinality(InFlight) = 3
    /\ \E i, j \in DOMAIN chain :
           /\ Len(chain[i].stack) > 1
           /\ chain[j].pc = "lookup" /\ Len(chain[j].stack) = 1

----------------------------------------------------------------------------
(* C15: the blocks of the output *)

\* The directories of repo the walker may enter.
Dirs(repo) == UNION { DirsAt(repo, d) : d \in 0..MAX_RECURSION_DEPTH }

\* The positions of files_list that hold a record of repo at or below dir.
Under(repo, dir) ==
    { k \in DOMAIN files_list :
        files_list[k].repo = repo /\ IsPrefix(dir, files_list[k].file_url.path) }

\* The position of path in the listing of its directory.
ListedAt(repo, path) ==
    CHOOSE k \in DOMAIN TreeOf(repo, Parent(path)) : TreeOf(repo, Parent(path))[k].path = path

----------------------------------------------------------------------------
(* C16: the waits of one resolver call *)

\* C16: within one resolver call every RETRY_DELAY wait is followed by
\* another attempt of that call, so a call that has returned after n attempts
\* has waited n - 1 times, and none of them after its last attempt.
C16_WaitOnlyBetweenAttempts ==
    \A i \in DOMAIN chain :
        LET c == chain[i] IN
        /\ c.pc = "sleep" => HasAttempt(c.attempt + 1)
        /\ (Returned(c) /\ c.call.sent = MAX_RETRIES
              /\ c.call.answers = Rep(MAX_RETRIES, 403)) =>
                c.call.sleeps = c.call.sent - 1

\* What the resolver does instead: it waits once after every 403, the last
\* one included.
C16_WaitAfterEvery403 ==
    \A i \in DOMAIN chain :
        LET c == chain[i]
            n403 == Cardinality({ k \in DOMAIN c.call.answers : c.call.answers[k] = 403 })
        IN  (Alive(c) /\ c.pc # "lookup") => c.call.sleeps = n403

----------------------------------------------------------------------------
(* C17: a rate-limit wait stalls one chain, for bounded time *)

\* Some step of task i.
ChainStep(i) ==
    \/ TaskStart(i)
    \/ ContentsOk(i) \/ ContentsError(i) \/ ContentsRaise(i)
    \/ CommitOk(i) \/ CommitStatusError(i) \/ CommitRaise(i)
    \/ Wake(i)

\* The task has not ended.
Pending(c) == c.pc \in {"enter", "listing", "lookup", "sleep"}

\* C17: while a chain waits in RETRY_DELAY during the join, every other chain
\* that has not ended can take its next step (start, have its request
\* answered, wake up); and a resolver call makes at most MAX_RETRIES attempts
\* and waits, so it is in retry for at most MAX_RETRIES * RETRY_DELAY seconds.
C17_WaitStallsOneChain ==
    /\ \A i, j \in DOMAIN chain :
         (i # j /\ gpc = "gather" /\ chain[i].pc = "sleep" /\ Pending(chain[j])) =>
             ENABLED ChainStep(j)
    /\ \A i \in DOMAIN chain :
         /\ chain[i].call.sent <= MAX_RETRIES
         /\ chain[i].attempt < MAX_RETRIES
         /\ chain[i].call.sleeps * RETRY_DELAY <= MAX_RETRIES * RETRY_DELAY

\* C17 witness: a chain is in the first wait of the call for its first file
\* while another chain has walked its tree to the end and a third has a
\* request in flight.
C17_Witness ==
    /\ gpc = "gather"
    /\ \E i, j, k \in DOMAIN chain :
           /\ chain[i].pc = "sleep" /\ chain[i].call.sleeps = 1
           /\ RecordsOf(chain[i]) = <<>>
           /\ chain[j].pc = "done" /\ chain[j].result # <<>>
           /\ chain[k].inflight # {}

----------------------------------------------------------------------------
(* C18: termination *)

\* get_github_files is over.
Ended == gpc \in {"returned", "raised"}

\* A request raised instead of being answered.
RequestRaised ==
    \/ \E k \in DOMAIN pageReqs : pageReqs[k].status = 0
    \/ \E i \in DOMAIN chain : chain[i].pc = "raised"

\* No chain is deeper than the cut allows and no call has more attempts than
\* MAX_RETRIES.
C18_Bounded ==
    \A i \in DOMAIN chain :
        LET c == chain[i] IN
        /\ Len(c.stack) <= MAX_RECURSION_DEPTH + 1
        /\ \A k \in DOMAIN c.stack : c.stack[k].depth <= MAX_RECURSION_DEPTH
        /\ \A l \in c.listed : l[2] <= MAX_RECURSION_DEPTH
        /\ c.call.sent <= MAX_RETRIES

\* C18: when whatever is pending is eventually served, the crawl eventually
\* ends, and it ends by returning unless a request raised instead of being
\* answered; on the way no chain goes deeper than MAX_RECURSION_DEPTH, also
\* in a repository whose listing is cyclical, and no resolver call makes
\* more than MAX_RETRIES attempts.
C18_CrawlTerminates ==
    /\ <>Ended
    /\ [](gpc = "raised" => RequestRaised)
    /\ []C18_Bounded

\* C18 witness: the crawl returned after the chain of the cyclical repository
\* listed its root at every depth from 0 to MAX_RECURSION_DEPTH and resolved
\* the file it found at each, one call having used all its attempts.
C18_Witness ==
    /\ gpc = "returned"
    /\ \E i \in DOMAIN chain :
           /\ chain[i].repo = "L"
           /\ chain[i].listed = { <<<<>>, d>> : d \in 0..MAX_RECURSION_DEPTH }
           /\ Len(chain[i].result) = MAX_RECURSION_DEPTH + 1
           /\ chain[i].call.sent = MAX_RETRIES

----------------------------------------------------------------------------
(* C19: the committer fields *)

\* Every record a chain holds or the crawl has returned.
AllRecords ==
    UNION { { RecordsOf(chain[i])[k] : k \in DOMAIN RecordsOf(chain[i]) } : i \in DOMAIN chain }
        \cup { files_list[k] : k \in DOMAIN files_list }

\* C19: the three committer fields of a record are all absent, or all present
\* and those of the most recent commit of the file; a call returns them
\* present only from a lookup answered 200; and a lookup answered 200 with an
\* empty commit list ends the call at once with the all-absent value - no
\* further request, no wait after it - and the file has its record.
C19_AllOrNothing ==
    /\ \A rec \in AllRecords :
         \/ Committer(rec) = AllNull
         \/ /\ rec.last_committer # None
            /\ rec.last_committer_email # None
            /\ rec.last_commit_date # None
            /\ HistoryOf(rec.repo, rec.file_url.path) # <<>>
            /\ Committer(rec) = MostRecent(rec.repo, rec.file_url.path)
    /\ \A i \in DOMAIN chain :
         LET c == chain[i] IN
         Returned(c) =>
            /\ c.call.ret # AllNull => Last(c.call.answers) = 200
            /\ (Last(c.call.answers) = 200 /\ HistoryOf(c.repo, c.call.path) = <<>>) =>
                  /\ c.call.ret = AllNull
                  /\ c.call.sent = Len(c.call.answers)
                  /\ c.call.sleeps = Len(c.call.answers) - 1
                  /\ \E k \in RecordsFor(RecordsOf(c), c.repo, c.call.path) :
                         Committer(RecordsOf(c)[k]) = AllNull

\* C19 witness: the crawl returned; the one lookup of a file without commits
\* was answered 200 at the first attempt and the file has its all-absent
\* record, next to a record of another repository with all three fields.
C19_Witness ==
    /\ gpc = "returned"
    /\ \E i \in DOMAIN chain :
           LET c == chain[i] IN
           /\ c.call.answers = <<200>> /\ c.call.sleeps = 0
           /\ HistoryOf(c.repo, c.call.path) = <<>>
           /\ \E k \in RecordsFor(files_list, c.repo, c.call.path) :
                  Committer(files_list[k]) = AllNull
    /\ \E k \in DOMAIN files_list :
           /\ files_list[k].last_committer # None
           /\ files_list[k].last_commit_date # None
====
